---- MODULE Spec2Model ----
(***************************************************************************)
(* Model of the arcade shooter in src/index.js (the first, current         *)
(* generation of the game: lines 1-1150).                                   *)
(*                                                                          *)
(* Numbers.  The program computes in IEEE doubles; the model computes in    *)
(* integers with fixed units:                                               *)
(*   time          milliseconds (dt, performance.now(), lifetimes)          *)
(*   spawn timers  microseconds (enemySpawnCooldown, enemySpawnRate)        *)
(*   length        world units; velocities in world units per second        *)
(*   health        health points (0..100); grayness in percent              *)
(*   popup alpha   1/10000;  trail intensity 1/1000;  unit vectors 1/1000   *)
(* Divisions truncate toward zero.                                          *)
(*                                                                          *)
(* JavaScript values.  The tutorial stage is a number when it comes from    *)
(* the "?? 0" default and a string when it comes from localStorage; the     *)
(* model keeps the type, because "+= 1" adds on a number and concatenates   *)
(* on a string, and "==" compares the two numerically.                      *)
(*                                                                          *)
(* Page.  The page is loaded without the "webgl" query parameter, so the    *)
(* renderer is a Renderer2D, on a canvas of DEFAULT_RESOLUTION.             *)
(***************************************************************************)
EXTENDS Integers, Sequences, FiniteSets, TLC

VARIABLES
    game,       \* the Game object: every field set by Game.restart
    renderer,   \* the renderer's cameraPos, cameraVel and grayness
    slot,       \* window.localStorage item "tutorial": Null or a decimal string
    now,        \* performance.now() at the last frame, in ms
    inputs,     \* number of input events since the page load that changed something
    fresh,      \* history: this page load found no persisted tutorial value
    sinceShot,  \* history: dt accumulated over non-paused updates since the
                \* last shot of the current player (NoShot before its first)
    shotAt,     \* history: the clock reading at the last shot of the page
                \* load, by any of its players (NoShot before the first)
    unit        \* the object of a specification of one class on its own (a
                \* colour string and its parse, a trail, a batch of circles);
                \* Null in the specifications of the game

vars == <<game, renderer, slot, now, inputs, fresh, sinceShot, shotAt, unit>>

----------------------------------------------------------------------------
(* Bounds of the model                                                      *)

MaxFrames == 2          \* long frames of one page load
MaxInputs == 3          \* input events of one page load
MaxTouches == 3         \* touch events of one page load
MaxBurst == 1           \* particles of one particleBurst
MaxBattleFrames == 9    \* long frames of a battle
MaxBattleInputs == 2    \* input events of a battle
MaxChaseFrames == 4     \* long frames of a chase
MaxChaseInputs == 2     \* input events of a chase
MaxHexLen == 7          \* characters of a string given to Color.hex
MaxBatches == 2         \* clear() calls on one RendererWebGL
MaxOverflow == 2        \* fillCircle calls of one batch beyond the capacity
MaxTrailCalls == 6      \* calls on one Trail
MaxCameraCalls == 4     \* calls on one renderer's camera
MaxPauseInputs == 3     \* input events of a battle with pauses
MaxSkirmishFrames == 8  \* short frames of a skirmish
MaxSkirmishInputs == 3  \* input events of a skirmish
MaxRestartInputs == 3   \* input events of a battle with restarts
MaxRematchInputs == 3   \* input events of a rematch
MaxTapInputs == 4       \* input events of a page load with pauses and taps

(* a frame delta of 0 (the first animation frame) or of one long frame     *)
FrameDts == {0, 1500}
FrameMs == 1500

----------------------------------------------------------------------------
(* Program constants (src/index.js:461-503)                                 *)

PLAYER_SPEED == 1000
PLAYER_RADIUS == 69
PLAYER_MAX_HEALTH == 100
PLAYER_SHOOT_COOLDOWN == 250
PLAYER_TRAIL_RATE == 3
TUTORIAL_POPUP_SPEED == 17
BULLET_RADIUS == 42
BULLET_SPEED == 2000
BULLET_LIFETIME == 5000
ENEMY_RADIUS == PLAYER_RADIUS
ENEMY_SPAWN_ANIMATION_SPEED == ENEMY_RADIUS * 8
ENEMY_SPAWN_COOLDOWN == 1000000
ENEMY_SPAWN_DISTANCE == 1500
ENEMY_DESPAWN_DISTANCE == ENEMY_SPAWN_DISTANCE * 2
ENEMY_DAMAGE == PLAYER_MAX_HEALTH \div 5
ENEMY_KILL_HEAL == PLAYER_MAX_HEALTH \div 10
ENEMY_KILL_SCORE == 100
ENEMY_TRAIL_RATE == 2
TRAIL_COOLDOWN == 17
DEAD_TIME_DIVISOR == 50

(* fixed-point scales *)
UNIT == 1000            \* length of a unit vector
ALPHA_ONE == 10000      \* popup alpha 1.0
TRAIL_ONE == 1000       \* trail intensity 1.0
GRAY_ONE == 100         \* grayness 1.0
DEFAULT_RESOLUTION == [w |-> 3840, h |-> 2160]

(* TutorialState *)
LearningMovement == 0
LearningShooting == 1
Finished == 2

Null == -1          \* localStorage.getItem found nothing
Undefined == -1     \* an untracked touch identifier, a missing message
NoShot == -1

----------------------------------------------------------------------------
(* Arithmetic                                                               *)

Abs(a) == IF a < 0 THEN -a ELSE a
Min(a, b) == IF a < b THEN a ELSE b
Max(a, b) == IF a > b THEN a ELSE b

(* division truncating toward zero *)
Div(a, b) == IF a >= 0 THEN a \div b ELSE -((-a) \div b)

RECURSIVE SqrtSearch(_, _, _)
SqrtSearch(n, lo, hi) ==
    IF lo >= hi THEN lo
    ELSE LET mid == (lo + hi + 1) \div 2
         IN  IF mid * mid <= n THEN SqrtSearch(n, mid, hi)
             ELSE SqrtSearch(n, lo, mid - 1)

(* Math.sqrt, rounded down *)
Sqrt(n) == SqrtSearch(n, 0, 46340)

----------------------------------------------------------------------------
(* class V2                                                                 *)

V2(x, y) == [x |-> x, y |-> y]
Zero == V2(0, 0)

add(a, b) == V2(a.x + b.x, a.y + b.y)
sub(a, b) == V2(a.x - b.x, a.y - b.y)

(* v.scale(num / den) *)
scale(v, num, den) == V2(Div(v.x * num, den), Div(v.y * num, den))

(* v.len(); long vectors are measured in thousands to stay inside 32 bits *)
len(v) ==
    IF Abs(v.x) > 30000 \/ Abs(v.y) > 30000
    THEN LET w == V2(Div(v.x, 1000), Div(v.y, 1000))
         IN  1000 * Sqrt(w.x * w.x + w.y * w.y)
    ELSE Sqrt(v.x * v.x + v.y * v.y)

(* v.normalize(), as a vector of length UNIT; the zero vector stays zero *)
normalize(v) ==
    LET n == len(v)
    IN  IF n = 0 THEN Zero ELSE V2(Div(v.x * UNIT, n), Div(v.y * UNIT, n))

(* a mutation of distLE: contact at exactly the sum of the radii is missed *)
distLEStrict(a, b, r) ==
    LET d == sub(a, b) IN d.x * d.x + d.y * d.y < r * r

(* a.dist(b) <= r and a.dist(b) < r, compared exactly on the squares *)
distLE(a, b, r) ==
    LET d == sub(a, b) IN d.x * d.x + d.y * d.y <= r * r
distLT(a, b, r) ==
    LET d == sub(a, b) IN d.x * d.x + d.y * d.y < r * r

(* V2.polar(mag, dir) for the four axis directions dir = k * PI / 2 *)
polar(mag, k) ==
    CASE k = 0 -> V2(mag, 0)
      [] k = 1 -> V2(0, mag)
      [] k = 2 -> V2(-mag, 0)
      [] k = 3 -> V2(0, -mag)

directionMap(key) ==
    CASE key = "KeyS" -> V2(0, 1)
      [] key = "KeyW" -> V2(0, -1)
      [] key = "KeyA" -> V2(-1, 0)
      [] key = "KeyD" -> V2(1, 0)
DirectionKeys == {"KeyS", "KeyW", "KeyA", "KeyD"}

----------------------------------------------------------------------------
(* JavaScript values of the tutorial stage: a number n, or the decimal      *)
(* string of n                                                              *)

JSNum(n) == [str |-> FALSE, n |-> n]
JSStr(n) == [str |-> TRUE, n |-> n]

(* v == k  for a number k: a string is converted to its number *)
LooseEq(v, k) == v.n = k

(* a mutation of PlusOne: always the string concatenation *)
PlusOneConcat(v) == JSStr(10 * v.n + 1)

(* v += 1: addition on a number, concatenation of "1" on a string *)
PlusOne(v) == IF v.str THEN JSStr(10 * v.n + 1) ELSE JSNum(v.n + 1)

(* localStorage.setItem stores String(v) *)
ToStored(v) == v.n

(* localStorage.getItem(LOCAL_STORAGE_TUTORIAL) ?? 0 *)
StoredOrZero(sl) == IF sl = Null THEN JSNum(0) ELSE JSStr(sl)

(* TutorialMessages[v]: the message index, Undefined outside the array *)
MessageAt(v) == IF v.n \in 0..2 THEN v.n ELSE Undefined

----------------------------------------------------------------------------
(* class Trail                                                              *)

TrailNew == [trail |-> <<>>, cooldown |-> 0, disabled |-> FALSE]

(* a mutation of DropFaded: an if in place of the while *)
DropFadedOnce(dots) ==
    IF Len(dots) > 0 /\ Head(dots).a <= 0 THEN Tail(dots) ELSE dots

RECURSIVE DropFaded(_)
(* while (trail.length > 0 && trail[0].a <= 0.0) trail.shift() *)
DropFaded(dots) ==
    IF Len(dots) > 0 /\ Head(dots).a <= 0 THEN DropFaded(Tail(dots)) ELSE dots

(* Trail.update(dt) of a trail with the given rate *)
TrailUpdate(t, rate, dt) ==
    [t EXCEPT
        !.trail = DropFaded([i \in 1..Len(t.trail) |->
                      [t.trail[i] EXCEPT !.a = @ - rate * dt]]),
        !.cooldown = @ - dt]

(* a mutation of TrailPush: the cooldown is not set again *)
TrailPushNoReset(t, pos) ==
    IF ~t.disabled /\ t.cooldown <= 0
    THEN [t EXCEPT !.trail = Append(@, [pos |-> pos, a |-> TRAIL_ONE])]
    ELSE t

(* Trail.push(pos) *)
TrailPush(t, pos) ==
    IF ~t.disabled /\ t.cooldown <= 0
    THEN [t EXCEPT !.trail = Append(@, [pos |-> pos, a |-> TRAIL_ONE]),
                   !.cooldown = TRAIL_COOLDOWN]
    ELSE t

----------------------------------------------------------------------------
(* class TutorialPopup, class Tutorial                                      *)

(* TutorialPopup.fadeIn / fadeOut *)
fadeIn(p) == [p EXCEPT !.dalpha = TUTORIAL_POPUP_SPEED]
fadeOut(p) == [p EXCEPT !.dalpha = -TUTORIAL_POPUP_SPEED]

(* new Tutorial(), reading the persisted stage sl *)
TutorialNew(sl) ==
    LET st == StoredOrZero(sl)
    IN  [state |-> st,
         popup |-> fadeIn([alpha |-> 0, dalpha |-> 0, text |-> MessageAt(st)])]

(* a mutation of onFadedOut: the text is replaced and the popup is left    *)
(* at alpha 0                                                               *)
onFadedOutStay(t) ==
    [t EXCEPT !.popup = [@ EXCEPT !.text = MessageAt(t.state)]]

(* the onFadedOut callback installed by the Tutorial constructor *)
onFadedOut(t) ==
    [t EXCEPT !.popup = fadeIn([@ EXCEPT !.text = MessageAt(t.state)])]

(* Tutorial.update(dt) = TutorialPopup.update(dt); onFadedIn is never set *)
TutorialUpdate(t, dt) ==
    LET a == t.popup.alpha + t.popup.dalpha * dt
        d == t.popup.dalpha
    IN  IF d < 0 /\ a <= 0
        THEN onFadedOut([t EXCEPT !.popup.dalpha = 0, !.popup.alpha = 0])
        ELSE IF d > 0 /\ a >= ALPHA_ONE
        THEN [t EXCEPT !.popup.dalpha = 0, !.popup.alpha = ALPHA_ONE]
        ELSE [t EXCEPT !.popup.alpha = a]

(* the body shared by Tutorial.playerMoved and Tutorial.playerShot, on the *)
(* pair w = [game, slot]: fade out, advance, persist                       *)
Advance(w) ==
    LET st == PlusOne(w.game.tutorial.state)
    IN  [game |-> [w.game EXCEPT !.tutorial.popup = fadeOut(@),
                                 !.tutorial.state = st],
         slot |-> ToStored(st)]

playerMoved(w) ==
    IF LooseEq(w.game.tutorial.state, LearningMovement) THEN Advance(w) ELSE w

playerShot(w) ==
    IF LooseEq(w.game.tutorial.state, LearningShooting) THEN Advance(w) ELSE w

----------------------------------------------------------------------------
(* class Player, class Bullet, class Particle, class Enemy                  *)

(* new Player(pos); shooting is not set by the constructor and so falsy *)
PlayerNew(pos, sl) ==
    [pos |-> pos,
     health |-> PLAYER_MAX_HEALTH,
     target |-> Zero,
     shooting |-> FALSE,
     lastShoot |-> 0,
     accuracy |-> 0,
     shootCount |-> IF sl = Finished THEN 0 ELSE -1,
     trail |-> TrailNew]

(* Player.update(dt, vel) *)
PlayerUpdate(p, dt, vel) ==
    LET t1 == TrailPush(p.trail, p.pos)
    IN  [p EXCEPT !.pos = add(p.pos, scale(vel, dt, 1000)),
                  !.trail = TrailUpdate(t1, PLAYER_TRAIL_RATE, dt)]

(* the Bullet returned by Player.shoot() *)
ShotBullet(p) ==
    LET bulletDir == normalize(sub(p.target, p.pos))
    IN  [pos |-> add(p.pos, scale(bulletDir, PLAYER_RADIUS + BULLET_RADIUS, UNIT)),
         vel |-> scale(bulletDir, BULLET_SPEED, UNIT),
         lifetime |-> BULLET_LIFETIME]

(* Player.damage(value), Player.heal(value) *)
damage(p, value) == [p EXCEPT !.health = Max(p.health - value, 0)]

(* a mutation of heal: the sum is not clamped to the maximum *)
healNoClamp(p, value) ==
    IF p.health > 0 THEN [p EXCEPT !.health = p.health + value] ELSE p

(* a mutation of heal: a dead player is healed too *)
healAlways(p, value) ==
    [p EXCEPT !.health = Min(p.health + value, PLAYER_MAX_HEALTH)]

heal(p, value) ==
    IF p.health > 0
    THEN [p EXCEPT !.health = Min(p.health + value, PLAYER_MAX_HEALTH)]
    ELSE p

(* Bullet.update(dt), Particle.update(dt) *)
BulletUpdate(b, dt) ==
    [b EXCEPT !.pos = add(b.pos, scale(b.vel, dt, 1000)), !.lifetime = @ - dt]

ParticleUpdate(q, dt) ==
    [q EXCEPT !.pos = add(q.pos, scale(q.vel, dt, 1000)), !.lifetime = @ - dt]

(* new Enemy(pos) *)
EnemyNew(pos) == [pos |-> pos, ded |-> FALSE, radius |-> 0, trail |-> TrailNew]

(* Enemy.update(dt, followPos); ENEMY_SPEED = PLAYER_SPEED / 3 *)
EnemyUpdate(e, dt, followPos) ==
    LET dir == normalize(sub(followPos, e.pos))
        vel == scale(dir, Div(PLAYER_SPEED * dt, 3000), UNIT)
        t1 == TrailPush(e.trail, e.pos)
    IN  [e EXCEPT
            !.pos = add(e.pos, vel),
            !.trail = TrailUpdate(t1, ENEMY_TRAIL_RATE, dt),
            !.radius = IF e.radius < ENEMY_RADIUS
                       THEN e.radius + Div(ENEMY_SPAWN_ANIMATION_SPEED * dt, 1000)
                       ELSE ENEMY_RADIUS]

(* particleBurst(particles, center, color): one particle per random draw *)
particleBurst(particles, center, color, draws) ==
    particles \o [k \in 1..Len(draws) |->
                    [pos |-> center, vel |-> draws[k].vel,
                     lifetime |-> draws[k].lifetime,
                     radius |-> draws[k].radius, color |-> color]]

----------------------------------------------------------------------------
(* class Game: restart and the stages of update                             *)

(* the fields set by Game.restart(), given the persisted stage sl *)
GameNew(sl) ==
    [player |-> PlayerNew(Zero, sl),
     score |-> 0,
     movingTouchId |-> Undefined,
     movingTouchStart |-> Zero,
     movingTouchDirection |-> Zero,
     shootingTouchId |-> Undefined,
     shootingTouchStart |-> Zero,
     shootingTouchDirection |-> Zero,
     pressedKeys |-> {},
     tutorial |-> TutorialNew(sl),
     bullets |-> <<>>,
     enemies |-> <<>>,
     particles |-> <<>>,
     enemySpawnRate |-> ENEMY_SPAWN_COOLDOWN,
     enemySpawnCooldown |-> ENEMY_SPAWN_COOLDOWN,
     paused |-> FALSE]

(* what Game.restart() does to the renderer *)
RendererRestart(r) == [r EXCEPT !.cameraPos = Zero, !.cameraVel = Zero]

(* the field initialisers of Renderer2D *)
RendererNew == [cameraPos |-> Zero, cameraVel |-> Zero, grayness |-> 0]

(* a mutation of setTarget: the camera jumps to the target *)
setTargetJump(r, target) == [r EXCEPT !.cameraPos = target, !.cameraVel = Zero]

(* renderer.setTarget(target), renderer.update(dt) *)
setTarget(r, target) == [r EXCEPT !.cameraVel = sub(target, r.cameraPos)]
RendererUpdate(r, dt) ==
    [r EXCEPT !.cameraPos = add(r.cameraPos, scale(r.cameraVel, dt, 1000))]

(* Renderer2D.screenToWorld(point), the canvas at DEFAULT_RESOLUTION so *)
(* that unitsPerPixel = 1                                                *)
screenToWorld(r, point) ==
    add(sub(point, V2(DEFAULT_RESOLUTION.w \div 2, DEFAULT_RESOLUTION.h \div 2)),
        r.cameraPos)

RECURSIVE SumDirections(_)
(* the sum of directionMap[key] over the pressed direction keys *)
SumDirections(keys) ==
    IF keys = {} THEN Zero
    ELSE LET k == CHOOSE k \in keys : TRUE
         IN  add(directionMap(k), SumDirections(keys \ {k}))

(* update, lines 827-835: moved, and the player's velocity *)
Moved(g) == g.pressedKeys \cap DirectionKeys # {}

MoveVel(g) ==
    scale(normalize(add(SumDirections(g.pressedKeys \cap DirectionKeys),
                        g.movingTouchDirection)),
          PLAYER_SPEED, UNIT)

(* a mutation of ShootReady: the cooldown is not awaited *)
ShootReadyNoCooldown(p, clk) == p.shooting

(* update, lines 841-848, on w = [game, slot] with the clock reading clk *)
ShootReady(p, clk) == p.shooting /\ clk - p.lastShoot > PLAYER_SHOOT_COOLDOWN

Shooting(w, clk) ==
    IF ShootReady(w.game.player, clk)
    THEN LET w1 == playerShot([w EXCEPT !.game.player.lastShoot = clk])
         IN  [w1 EXCEPT !.game.player.shootCount = @ + 1,
                        !.game.bullets = Append(@, ShotBullet(w1.game.player))]
    ELSE w

(* update, lines 827-850: everything between the camera and the collisions *)
BeforeScan(g, sl, dt, clk) ==
    LET w0 == [game |-> g, slot |-> sl]
        w1 == IF Moved(g) THEN playerMoved(w0) ELSE w0
        w2 == [w1 EXCEPT !.game.player = PlayerUpdate(@, dt, MoveVel(g))]
        w3 == Shooting(w2, clk)
    IN  [w3 EXCEPT !.game.tutorial = TutorialUpdate(@, dt)]

(* update, lines 855-862: bullet j scores on enemy i *)
BulletHit(g, i, j, draws) ==
    IF distLE(g.enemies[i].pos, g.bullets[j].pos, BULLET_RADIUS + ENEMY_RADIUS)
    THEN [g EXCEPT !.score = @ + ENEMY_KILL_SCORE,
                   !.player = [heal(g.player, ENEMY_KILL_HEAL) EXCEPT
                                 !.accuracy = g.player.accuracy + 1],
                   !.bullets[j].lifetime = 0,
                   !.enemies[i].ded = TRUE,
                   !.particles = particleBurst(@, g.enemies[i].pos, "enemy", draws)]
    ELSE g

RECURSIVE ScanBullets(_, _, _, _)
(* update, lines 854-863: for (let bullet of this.bullets), from index j *)
ScanBullets(g, i, j, draws) ==
    IF j > Len(g.bullets) THEN g
    ELSE ScanBullets(BulletHit(g, i, j, draws), i, j + 1, draws)

(* a mutation of PlayerHit: an enemy a bullet has just killed still        *)
(* collides with the player                                                 *)
PlayerHitDead(g, i, draws) ==
    IF /\ g.player.health > 0
       /\ distLE(g.enemies[i].pos, g.player.pos, PLAYER_RADIUS + ENEMY_RADIUS)
    THEN LET p1 == damage(g.player, ENEMY_DAMAGE)
             frozen == p1.health <= 0
         IN  [g EXCEPT
                !.player = IF frozen THEN [p1 EXCEPT !.trail.disabled = TRUE] ELSE p1,
                !.enemies = [k \in 1..Len(g.enemies) |->
                    LET e == IF frozen
                             THEN [g.enemies[k] EXCEPT !.trail.disabled = TRUE]
                             ELSE g.enemies[k]
                    IN  IF k = i THEN [e EXCEPT !.ded = TRUE] ELSE e],
                !.particles = particleBurst(@, g.enemies[i].pos, "player", draws)]
    ELSE g

(* update, lines 866-878: enemy i against the player *)
PlayerHit(g, i, draws) ==
    IF /\ g.player.health > 0
       /\ ~g.enemies[i].ded
       /\ distLE(g.enemies[i].pos, g.player.pos, PLAYER_RADIUS + ENEMY_RADIUS)
    THEN LET p1 == damage(g.player, ENEMY_DAMAGE)
             frozen == p1.health <= 0
         IN  [g EXCEPT
                !.player = IF frozen THEN [p1 EXCEPT !.trail.disabled = TRUE] ELSE p1,
                !.enemies = [k \in 1..Len(g.enemies) |->
                    LET e == IF frozen
                             THEN [g.enemies[k] EXCEPT !.trail.disabled = TRUE]
                             ELSE g.enemies[k]
                    IN  IF k = i THEN [e EXCEPT !.ded = TRUE] ELSE e],
                !.particles = particleBurst(@, g.enemies[i].pos, "player", draws)]
    ELSE g

RECURSIVE ScanEnemies(_, _, _)
(* update, lines 852-879: for (let enemy of this.enemies), from index i *)
ScanEnemies(g, i, draws) ==
    IF i > Len(g.enemies) THEN g
    ELSE LET g1 == IF ~g.enemies[i].ded THEN ScanBullets(g, i, 1, draws) ELSE g
         IN  ScanEnemies(PlayerHit(g1, i, draws), i + 1, draws)

CollisionScan(g, draws) == ScanEnemies(g, 1, draws)

(* a mutation of Prune: enemies the player has left behind are kept *)
PruneKeepFar(g, dt) ==
    LET bs == [j \in 1..Len(g.bullets) |-> BulletUpdate(g.bullets[j], dt)]
        ps == [j \in 1..Len(g.particles) |-> ParticleUpdate(g.particles[j], dt)]
        es == [j \in 1..Len(g.enemies) |-> EnemyUpdate(g.enemies[j], dt, g.player.pos)]
    IN  [g EXCEPT
            !.bullets = SelectSeq(bs, LAMBDA b : b.lifetime > 0),
            !.particles = SelectSeq(ps, LAMBDA q : q.lifetime > 0),
            !.enemies = SelectSeq(es, LAMBDA e : ~e.ded)]

(* update, lines 881-896: advance and prune bullets, particles, enemies *)
Prune(g, dt) ==
    LET bs == [j \in 1..Len(g.bullets) |-> BulletUpdate(g.bullets[j], dt)]
        ps == [j \in 1..Len(g.particles) |-> ParticleUpdate(g.particles[j], dt)]
        es == [j \in 1..Len(g.enemies) |-> EnemyUpdate(g.enemies[j], dt, g.player.pos)]
    IN  [g EXCEPT
            !.bullets = SelectSeq(bs, LAMBDA b : b.lifetime > 0),
            !.particles = SelectSeq(ps, LAMBDA q : q.lifetime > 0),
            !.enemies = SelectSeq(es, LAMBDA e :
                /\ ~e.ded
                /\ distLT(e.pos, g.player.pos, ENEMY_DESPAWN_DISTANCE))]

(* a mutation of SpawnGate: spawning starts with the shooting lesson *)
SpawnGateEarly(t) == ~LooseEq(t.state, LearningMovement)

(* the gate of the spawn scheduler, line 898 *)
SpawnGate(t) == LooseEq(t.state, Finished)

(* Game.spawnEnemy() with the random direction dir *)
spawnEnemy(g, dir) ==
    [g EXCEPT !.enemies =
        Append(@, EnemyNew(add(g.player.pos, polar(ENEMY_SPAWN_DISTANCE, dir))))]

(* a mutation of SpawnScheduler: the cooldown is reset to the interval     *)
(* after shrinking                                                          *)
SpawnSchedulerShrunk(g, dt, dir) ==
    IF SpawnGate(g.tutorial)
    THEN LET cd == g.enemySpawnCooldown - 1000 * dt
         IN  IF cd <= 0
             THEN [spawnEnemy(g, dir) EXCEPT
                      !.enemySpawnCooldown = Div(g.enemySpawnRate * 100, 101),
                      !.enemySpawnRate = Div(g.enemySpawnRate * 100, 101)]
             ELSE [g EXCEPT !.enemySpawnCooldown = cd]
    ELSE g

(* update, lines 898-905; ENEMY_SPAWN_GROWTH = 1.01 = 101 / 100 *)
SpawnScheduler(g, dt, dir) ==
    IF SpawnGate(g.tutorial)
    THEN LET cd == g.enemySpawnCooldown - 1000 * dt
         IN  IF cd <= 0
             THEN [spawnEnemy(g, dir) EXCEPT
                      !.enemySpawnCooldown = g.enemySpawnRate,
                      !.enemySpawnRate = Div(g.enemySpawnRate * 100, 101)]
             ELSE [g EXCEPT !.enemySpawnCooldown = cd]
    ELSE g

(* the grayness set by a non-paused update, line 817 *)
HealthGrayness(p) == GRAY_ONE - Div(p.health * GRAY_ONE, PLAYER_MAX_HEALTH)

(* the dt the simulation uses, lines 820-822 *)
SimDt(p, dt) == IF p.health <= 0 THEN Div(dt, DEAD_TIME_DIVISOR) ELSE dt

(* a mutation of PausedUpdate: the popup keeps fading while paused *)
PausedUpdateFading(g, r, sl, dt) ==
    [game |-> [g EXCEPT !.tutorial = TutorialUpdate(@, dt)],
     renderer |-> [r EXCEPT !.grayness = GRAY_ONE],
     slot |-> sl]

(* the paused branch of Game.update(dt), lines 813-815 *)
PausedUpdate(g, r, sl, dt) ==
    [game |-> g, renderer |-> [r EXCEPT !.grayness = GRAY_ONE], slot |-> sl]

(* Game.update(dt) on the game g, the renderer r and the slot sl, with the *)
(* clock reading clk and the random draws rnd = [dir, burst]               *)
GameUpdate(g, r, sl, dt, clk, rnd) ==
    IF g.paused
    THEN PausedUpdate(g, r, sl, dt)
    ELSE LET r1 == [r EXCEPT !.grayness = HealthGrayness(g.player)]
             sdt == SimDt(g.player, dt)
             r2 == RendererUpdate(setTarget(r1, g.player.pos), sdt)
             w == BeforeScan(g, sl, sdt, clk)
             g1 == CollisionScan(w.game, rnd.burst)
             g2 == Prune(g1, sdt)
         IN  [game |-> SpawnScheduler(g2, sdt, rnd.dir),
              renderer |-> r2,
              slot |-> w.slot]

----------------------------------------------------------------------------
(* Inputs                                                                   *)

(* event.code of the keyboard events *)
KeyCodes == {"KeyD", "Space"}

(* offsetX / offsetY of a mouse-down: right of the screen centre *)
MousePoints == {V2(2920, 1080)}

(* identifier and clientX / clientY of the touches: a point on the left   *)
(* half and one on the right half for touch-start, and the same points     *)
(* dragged by 100 pixels for touch-move                                     *)
TouchIds == {1, 2}
TouchStartPoints == {V2(960, 1080), V2(2880, 1080)}
TouchMovePoints == {V2(1060, 1080), V2(2980, 1080)}
INNER_WIDTH == DEFAULT_RESOLUTION.w

(* Math.random(): the spawn direction, and the particles of a burst *)
SpawnDirs == {0, 2}
ParticleDraws == {[vel |-> V2(1000, 0), lifetime |-> 500, radius |-> 15]}
Bursts == UNION {[1..n -> ParticleDraws] : n \in 0..MaxBurst}
Randoms == [dir : SpawnDirs, burst : Bursts]

(* the values a previous page load can have left in the slot *)
PersistedStages == {Null, LearningShooting, Finished}

----------------------------------------------------------------------------
(* Actions                                                                  *)

Init ==
    /\ slot \in PersistedStages
    /\ game = GameNew(slot)
    /\ renderer = RendererNew
    /\ now = 0
    /\ inputs = 0
    /\ unit = Null
    /\ fresh = (slot = Null)
    /\ sinceShot = NoShot
    /\ shotAt = NoShot

(* a page load: lines 1046-1070 build the renderer and the Game again; the *)
(* slot survives and the clock starts again                                 *)
NewSession ==
    /\ game' = GameNew(slot)
    /\ renderer' = RendererNew
    /\ now' = 0
    /\ inputs' = 0
    /\ unit' = unit
    /\ fresh' = (slot = Null)
    /\ sinceShot' = NoShot
    /\ shotAt' = NoShot
    /\ UNCHANGED slot

(* a mutation of Restart: the spawn interval keeps the value it has *)
(* shrunk to                                                        *)
RestartKeepRate ==
    /\ game' = [GameNew(slot) EXCEPT !.enemySpawnRate = game.enemySpawnRate]
    /\ renderer' = RendererRestart(renderer)
    /\ sinceShot' = NoShot
    /\ shotAt' = shotAt
    /\ UNCHANGED <<slot, now, fresh>>

(* Game.restart() *)
Restart ==
    /\ game' = GameNew(slot)
    /\ renderer' = RendererRestart(renderer)
    /\ sinceShot' = NoShot
    /\ shotAt' = shotAt
    /\ UNCHANGED <<slot, now, fresh>>

(* one animation frame, lines 1073-1091: game.update(dt) *)
Update(dt, rnd, maxFrames) ==
    /\ now + dt <= maxFrames * FrameMs
    /\ now' = now + dt
    /\ LET res == GameUpdate(game, renderer, slot, dt, now + dt, rnd)
           fired == res.game.player.shootCount # game.player.shootCount
       IN  /\ game' = res.game
           /\ renderer' = res.renderer
           /\ slot' = res.slot
           /\ sinceShot' = IF game.paused THEN sinceShot
                           ELSE IF fired THEN 0
                           ELSE IF sinceShot = NoShot THEN NoShot
                           ELSE Min(sinceShot + dt, PLAYER_SHOOT_COOLDOWN + 1)
           /\ shotAt' = IF fired THEN now + dt ELSE shotAt
    /\ UNCHANGED <<inputs, fresh, unit>>

(* Game.keyDown(event) *)
KeyDown(code) ==
    IF game.player.health <= 0 /\ code = "Space"
    THEN Restart
    ELSE /\ game' = [game EXCEPT
                !.paused = IF code = "Space" THEN ~@ ELSE @,
                !.pressedKeys = @ \cup {code}]
         /\ UNCHANGED <<renderer, slot, now, fresh, sinceShot, shotAt>>

(* Game.keyUp(event) *)
KeyUp(code) ==
    /\ game' = [game EXCEPT !.pressedKeys = @ \ {code}]
    /\ UNCHANGED <<renderer, slot, now, fresh, sinceShot, shotAt>>

(* Game.mouseDown(event) *)
MouseDown(point) ==
    /\ game' = IF game.paused THEN [game EXCEPT !.paused = FALSE]
               ELSE IF game.player.health <= 0 THEN game
               ELSE [game EXCEPT !.player.target = screenToWorld(renderer, point),
                                 !.player.shooting = TRUE]
    /\ UNCHANGED <<renderer, slot, now, fresh, sinceShot, shotAt>>

(* Game.mouseMove(event): with the game running and the player shooting,   *)
(* line 965 reads this.camera, a field no Game has, and throws before it   *)
(* assigns; otherwise the handler does nothing                              *)
MouseMove(point) ==
    UNCHANGED <<game, renderer, slot, now, fresh, sinceShot, shotAt>>

(* Game.mouseUp(event) *)
MouseUp ==
    /\ game' = [game EXCEPT !.player.shooting = FALSE]
    /\ UNCHANGED <<renderer, slot, now, fresh, sinceShot, shotAt>>

(* a mutation of TrackTouch: the latest touch takes the slot of its side *)
TrackTouchLatest(g, id, point) ==
    IF point.x < INNER_WIDTH \div 2
    THEN [g EXCEPT !.movingTouchId = id, !.movingTouchStart = point]
    ELSE [g EXCEPT !.shootingTouchId = id, !.shootingTouchStart = point]

(* the body of touchDown's forEach for one touch, lines 1013-1023 *)
TrackTouch(g, id, point) ==
    IF point.x < INNER_WIDTH \div 2
    THEN IF g.movingTouchId = Undefined
         THEN [g EXCEPT !.movingTouchId = id, !.movingTouchStart = point]
         ELSE g
    ELSE IF g.shootingTouchId = Undefined
         THEN [g EXCEPT !.shootingTouchId = id, !.shootingTouchStart = point]
         ELSE g

(* a mutation of touchDown: the paused branch unpauses without returning *)
TouchDownThrough(id, point) ==
    IF game.player.health <= 0
    THEN Restart
    ELSE LET w == playerMoved([game |-> game, slot |-> slot])
         IN  /\ game' = [TrackTouch(w.game, id, point) EXCEPT !.paused = FALSE]
             /\ slot' = w.slot
             /\ UNCHANGED <<renderer, now, fresh, sinceShot, shotAt>>

(* Game.touchDown(event) with one changed touch *)
TouchDown(id, point) ==
    IF game.paused
    THEN /\ game' = [game EXCEPT !.paused = FALSE]
         /\ UNCHANGED <<renderer, slot, now, fresh, sinceShot, shotAt>>
    ELSE IF game.player.health <= 0
    THEN Restart
    ELSE LET w == playerMoved([game |-> game, slot |-> slot])
         IN  /\ game' = TrackTouch(w.game, id, point)
             /\ slot' = w.slot
             /\ UNCHANGED <<renderer, now, fresh, sinceShot, shotAt>>

(* Game.touchMove(event) with one changed touch *)
TouchMove(id, point) ==
    /\ LET g1 == IF id = game.movingTouchId
                 THEN [game EXCEPT !.movingTouchDirection =
                                        sub(point, game.movingTouchStart)]
                 ELSE game
           dir == scale(sub(point, g1.shootingTouchStart), 1000, 1)
       IN  game' = IF id = g1.shootingTouchId
                   THEN [g1 EXCEPT !.shootingTouchDirection = dir,
                                   !.player.target = add(g1.player.pos, dir),
                                   !.player.shooting = TRUE]
                   ELSE g1
    /\ UNCHANGED <<renderer, slot, now, fresh, sinceShot, shotAt>>

(* Game.touchUp(event) with one changed touch *)
TouchUp(id) ==
    /\ LET g1 == IF game.movingTouchId = id
                 THEN [game EXCEPT !.movingTouchId = Undefined,
                                   !.movingTouchDirection = Zero]
                 ELSE game
       IN  game' = IF g1.shootingTouchId = id
                   THEN [g1 EXCEPT !.shootingTouchId = Undefined,
                                   !.player.shooting = FALSE]
                   ELSE g1
    /\ UNCHANGED <<renderer, slot, now, fresh, sinceShot, shotAt>>

(* the blur listener without its test of the player's health *)
BlurAlways ==
    /\ game' = [game EXCEPT !.paused = TRUE]
    /\ UNCHANGED <<renderer, slot, now, fresh, sinceShot, shotAt>>

(* the blur listener, lines 1131-1135 *)
Blur ==
    /\ game.player.health > 0
    /\ game' = [game EXCEPT !.paused = TRUE]
    /\ UNCHANGED <<renderer, slot, now, fresh, sinceShot, shotAt>>

(* one animation frame with any frame delta and any random draws *)
Frame(maxFrames, dirs) ==
    \E dt \in FrameDts, rnd \in Randoms :
        rnd.dir \in dirs /\ Update(dt, rnd, maxFrames)

(* one event of the keyboard, mouse and blur listeners *)
Handler ==
    \/ \E code \in KeyCodes : KeyDown(code)
    \/ \E code \in KeyCodes : KeyUp(code)
    \/ \E point \in MousePoints : MouseMove(point)
    \/ \E point \in MousePoints : MouseDown(point)
    \/ MouseUp
    \/ Blur

(* one event of the touch listeners *)
TouchHandler ==
    \/ \E id \in TouchIds, point \in TouchStartPoints : TouchDown(id, point)
    \/ \E id \in TouchIds, point \in TouchMovePoints : TouchMove(id, point)
    \/ \E id \in TouchIds : TouchUp(id)

(* inputs counts the events that changed something *)
Counted ==
    /\ inputs' = IF game' = game /\ slot' = slot THEN inputs ELSE inputs + 1
    /\ unit' = unit

Input(maxInputs) ==
    /\ inputs < maxInputs
    /\ Handler
    /\ Counted

Next ==
    \/ Frame(MaxFrames, SpawnDirs)
    \/ Input(MaxInputs)
    \/ NewSession

(* the page on a desktop: frames, keyboard, mouse and blur events, reloads *)
Spec == Init /\ [][Next]_vars

TouchNext ==
    \/ Frame(MaxFrames, SpawnDirs)
    \/ /\ inputs < MaxTouches
       /\ TouchHandler
       /\ Counted
    \/ NewSession

(* the page on a touch screen: frames, touch events, reloads *)
TouchSpec == Init /\ [][TouchNext]_vars

(* a battle: a page load that finds the tutorial finished, followed for    *)
(* more frames and fewer input events                                       *)
BattleInit == Init /\ slot = Finished

(* the player stands still; one finger taps the right half and drags *)
BattleHandler ==
    \/ TouchDown(1, V2(2880, 1080))
    \/ TouchMove(1, V2(2980, 1080))

BattleNext ==
    \/ Frame(MaxBattleFrames, {0})
    \/ /\ inputs < MaxBattleInputs
       /\ BattleHandler
       /\ Counted

BattleSpec == BattleInit /\ [][BattleNext]_vars

(* a battle on a touch screen: any touch event before the first long frame *)
(* and after the player's death, on a player that stands still until a     *)
(* finger drags                                                             *)
FingersNext ==
    \/ Frame(MaxBattleFrames, {0})
    \/ /\ inputs < MaxBattleInputs
       /\ now = 0 \/ game.player.health <= 0
       /\ TouchHandler
       /\ Counted

FingersSpec == BattleInit /\ [][FingersNext]_vars

(* the window loses the focus, Space is pressed *)
PauseHandler ==
    \/ KeyDown("Space")
    \/ Blur

PauseNext ==
    \/ Frame(MaxBattleFrames, {0})
    \/ /\ inputs < MaxPauseInputs
       /\ PauseHandler
       /\ Counted

(* a battle with pauses: the idle player of a finished tutorial is killed  *)
(* while the game is paused and resumed at any time                         *)
PauseSpec == BattleInit /\ [][PauseNext]_vars

(* the frame delta of a skirmish, in ms: a bullet covers 1000 units in a   *)
(* frame, the player 500                                                    *)
SkirmishMs == 500

(* the player walks to the right and stops, the mouse is pressed and       *)
(* released                                                                 *)
SkirmishHandler ==
    \/ KeyDown("KeyD")
    \/ KeyUp("KeyD")
    \/ \E point \in MousePoints : MouseDown(point)
    \/ MouseUp

(* one short animation frame, the enemies spawning to the right *)
SkirmishFrame ==
    \E rnd \in Randoms :
        /\ rnd.dir = 0
        /\ now + SkirmishMs <= MaxSkirmishFrames * SkirmishMs
        /\ Update(SkirmishMs, rnd, MaxSkirmishFrames)

SkirmishNext ==
    \/ SkirmishFrame
    \/ /\ inputs < MaxSkirmishInputs
       /\ SkirmishHandler
       /\ Counted

(* a skirmish: a page load that finds the tutorial finished, followed in   *)
(* short frames while the player walks and shoots                           *)
SkirmishSpec == BattleInit /\ [][SkirmishNext]_vars

(* a first lesson: the same frames and events after a page load that       *)
(* finds no persisted stage                                                 *)
LessonInit == Init /\ slot = Null

LessonSpec == LessonInit /\ [][SkirmishNext]_vars

(* Space is pressed, a finger touches the screen *)
RestartHandler ==
    \/ KeyDown("Space")
    \/ \E id \in TouchIds, point \in TouchStartPoints : TouchDown(id, point)

RestartNext ==
    \/ Frame(MaxBattleFrames, {0})
    \/ /\ inputs < MaxRestartInputs
       /\ RestartHandler
       /\ Counted

(* a battle with restarts: the idle player of a finished tutorial is       *)
(* killed, Space and touch-starts arriving at any time                      *)
RestartSpec == BattleInit /\ [][RestartNext]_vars

(* Space is pressed, the mouse is pressed to the right of the player *)
RematchHandler ==
    \/ KeyDown("Space")
    \/ \E point \in MousePoints : MouseDown(point)

(* the events arrive before the first frame, on a dead player and on a    *)
(* game that has just been restarted                                       *)
RematchNext ==
    \/ Frame(MaxBattleFrames, {2})
    \/ /\ inputs < MaxRematchInputs
       /\ now = 0 \/ game.player.health <= 0 \/ game = GameNew(slot)
       /\ RematchHandler
       /\ Counted

(* a rematch: the player of a finished tutorial shoots to the right while  *)
(* the enemies come from the left, dies, and the game is restarted          *)
RematchSpec == BattleInit /\ [][RematchNext]_vars

(* the points of the screen where the mouse is pressed in a page load with *)
(* taps: to the right of the player, and where the fingers touch            *)
TapPoints == MousePoints \cup TouchStartPoints

(* the window loses the focus, the mouse is pressed, a finger touches the  *)
(* screen                                                                   *)
TapHandler ==
    \/ Blur
    \/ \E point \in TapPoints : MouseDown(point)
    \/ \E id \in TouchIds, point \in TouchStartPoints : TouchDown(id, point)

TapNext ==
    \/ Frame(MaxFrames, {0})
    \/ /\ inputs < MaxTapInputs
       /\ TapHandler
       /\ Counted

(* a first page load with pauses and taps: the game is paused by the loss *)
(* of the focus only, so that only a press of the mouse or a touch resumes  *)
(* it                                                                       *)
TapSpec == LessonInit /\ [][TapNext]_vars

(* the player runs to the right and shoots, enemies come from both sides *)
ChaseHandler ==
    \/ KeyDown("KeyD")
    \/ \E point \in MousePoints : MouseDown(point)

ChaseNext ==
    \/ Frame(MaxChaseFrames, SpawnDirs)
    \/ /\ inputs < MaxChaseInputs
       /\ ChaseHandler
       /\ Counted

(* a chase: a page load that finds the tutorial finished, the player on    *)
(* the move                                                                 *)
ChaseSpec == BattleInit /\ [][ChaseNext]_vars

----------------------------------------------------------------------------
(* Vocabulary of the properties                                             *)

Stage == game.tutorial.state.n
Health == game.player.health

(* the step is game.update(dt) with the random draws rnd *)
UpdateStep(dt, rnd) == Update(dt, rnd, MaxFrames + MaxBattleFrames)
FrameStep == \E dt \in FrameDts, rnd \in Randoms : UpdateStep(dt, rnd)

(* the step fires a bullet *)
Fired == game'.player.shootCount = game.player.shootCount + 1

(* the step is a touch-start on the left half of the screen *)
LeftTouchStart ==
    \E id \in TouchIds, point \in TouchStartPoints :
        point.x < INNER_WIDTH \div 2 /\ TouchDown(id, point)

----------------------------------------------------------------------------
C2_SlotHoldsStage ==
    /\ slot \in {Null, LearningMovement, LearningShooting, Finished}
    /\ Stage \in {LearningMovement, LearningShooting, Finished}

(* C3: while the tutorial is not Finished there are no enemies and the     *)
(* spawn cooldown and the spawn interval have their initial values.         *)
C3_SpawnGated ==
    Stage # Finished =>
        /\ game.enemies = <<>>
        /\ game.enemySpawnCooldown = ENEMY_SPAWN_COOLDOWN
        /\ game.enemySpawnRate = ENEMY_SPAWN_COOLDOWN

(* a long frame has run during the shooting lesson *)
C3_Witness ==
    /\ Stage = LearningShooting
    /\ now >= FrameMs
    /\ game.player.trail.cooldown < 0

(* C4 as claimed: the tutorial leaves LearningMovement only on a frame     *)
(* with a direction key held or on the start of a drag on the left half,   *)
(* and leaves LearningShooting only when a bullet is fired.                 *)
C4_OwnActionOnly ==
    [][ /\ (Stage = LearningMovement /\ Stage' # LearningMovement) =>
              \/ FrameStep /\ Moved(game)
              \/ LeftTouchStart
        /\ (Stage = LearningShooting /\ Stage' # LearningShooting) =>
              FrameStep /\ Fired ]_vars

(* C5: a paused update changes the renderer's grayness to 1 and nothing    *)
(* else, whatever dt is.                                                    *)
C5_PausedUpdateFreezes ==
    [][ (game.paused /\ FrameStep) =>
            /\ game' = game
            /\ slot' = slot
            /\ renderer' = [renderer EXCEPT !.grayness = GRAY_ONE] ]_vars

(* a paused update has run on a player at full health *)
C5_Witness ==
    /\ game.paused
    /\ now >= FrameMs
    /\ Health = PLAYER_MAX_HEALTH
    /\ renderer.grayness = GRAY_ONE

(* C6 as claimed: a bullet is fired only when the dt accumulated over the  *)
(* non-paused updates since the previous shot, this update's dt included,  *)
(* exceeds PLAYER_SHOOT_COOLDOWN.                                           *)
C6_CooldownCountsDt ==
    [][ \A dt \in FrameDts, rnd \in Randoms :
          (UpdateStep(dt, rnd) /\ Fired /\ sinceShot # NoShot) =>
              sinceShot + dt > PLAYER_SHOOT_COOLDOWN ]_vars

(* C7 as claimed: the game after an update is a function of the game       *)
(* before it, of dt and of the inputs; neither the random draws nor the    *)
(* reading of the clock change it.                                          *)
C7_Deterministic ==
    [][ \A dt \in FrameDts, rnd \in Randoms :
          UpdateStep(dt, rnd) =>
              \A rnd2 \in Randoms, late \in {0, FrameMs} :
                  GameUpdate(game, renderer, slot, dt, now + dt + late, rnd2).game
                      = game' ]_vars

(* the game as the collision scan of the update with frame delta dt finds it *)
Scanned(dt) == BeforeScan(game, slot, SimDt(game.player, dt), now + dt).game

(* the <<enemy, bullet>> index pairs of m whose centres are within the sum *)
(* of the radii                                                             *)
HitPairs(m) ==
    {p \in (1..Len(m.enemies)) \X (1..Len(m.bullets)) :
        LET d == sub(m.enemies[p[1]].pos, m.bullets[p[2]].pos)
            r == BULLET_RADIUS + ENEMY_RADIUS
        IN  d.x * d.x + d.y * d.y <= r * r}

(* the enemies of m that touch the player and no bullet *)
Touching(m) ==
    {i \in 1..Len(m.enemies) :
        /\ LET d == sub(m.enemies[i].pos, m.player.pos)
               r == PLAYER_RADIUS + ENEMY_RADIUS
           IN  d.x * d.x + d.y * d.y <= r * r
        /\ \A j \in 1..Len(m.bullets) : <<i, j>> \notin HitPairs(m)}

(* n kill-heals clamped to the maximum *)
Healed(h, n) == Min(h + n * ENEMY_KILL_HEAL, PLAYER_MAX_HEALTH)

(* what a non-paused update does with the pairs in contact; the n hits of  *)
(* an update that does not damage the player heal a living player, and a   *)
(* dead one too if healsDead                                                *)
HitsRegistered(healsDead) ==
    \A dt \in FrameDts, rnd \in Randoms :
        (UpdateStep(dt, rnd) /\ ~game.paused) =>
            LET m == Scanned(dt)
                sc == CollisionScan(m, rnd.burst)
                H == HitPairs(m)
                n == Cardinality(H)
            IN  /\ \A p \in H : /\ sc.enemies[p[1]].ded
                                /\ sc.bullets[p[2]].lifetime = 0
                /\ Len(sc.enemies) = Len(m.enemies)
                /\ Len(sc.bullets) = Len(m.bullets)
                /\ game'.score = game.score + n * ENEMY_KILL_SCORE
                /\ game'.player.accuracy = game.player.accuracy + n
                /\ (Health = 0 \/ Touching(m) = {}) =>
                       Health' = IF Health > 0 \/ healsDead
                                 THEN Healed(Health, n) ELSE Health
                /\ \A k \in 1..Len(game'.enemies) : ~game'.enemies[k].ded
                /\ \A k \in 1..Len(game'.bullets) : game'.bullets[k].lifetime > 0
                /\ Len(game'.enemies) <=
                       Len(m.enemies) - Cardinality({p[1] : p \in H}) + 1
                /\ Len(game'.bullets) <=
                       Len(m.bullets) - Cardinality({p[2] : p \in H})

C9_HealthInRange ==
    /\ 0 <= Health
    /\ Health <= PLAYER_MAX_HEALTH
    /\ heal([game.player EXCEPT !.health = 95], ENEMY_KILL_HEAL).health
           = PLAYER_MAX_HEALTH
    /\ damage([game.player EXCEPT !.health = 10], ENEMY_DAMAGE).health = 0

(* a kill has healed a player at full health *)
C9_Witness ==
    /\ game.score > 0
    /\ game.player.accuracy > 0
    /\ Health = PLAYER_MAX_HEALTH

(* C10: without a hit in the update, each enemy that touches a living      *)
(* player takes ENEMY_DAMAGE from the health, down to 0 (five of them from *)
(* full health); only Game.restart takes the health away from 0; when the  *)
(* trails are disabled, by a death, the health is 0 whatever the bullets   *)
(* hit in that update or later; an enemy touching a dead player is not     *)
(* marked dead and is kept.                                                 *)
C10_DeadStaysDead ==
    /\ [](game.player.trail.disabled => Health = 0)
    /\ [][ /\ (Health = 0 /\ Health' # 0) => game' = GameNew(slot)
           /\ \A dt \in FrameDts, rnd \in Randoms :
                (UpdateStep(dt, rnd) /\ ~game.paused) =>
                    LET m == Scanned(dt)
                        sc == CollisionScan(m, rnd.burst)
                        k == Cardinality(Touching(m))
                    IN  /\ (Health > 0 /\ HitPairs(m) = {}) =>
                              Health' = Max(Health - k * ENEMY_DAMAGE, 0)
                        /\ Health = 0 =>
                              /\ Health' = 0
                              /\ \A i \in Touching(m) : ~sc.enemies[i].ded
                              /\ Len(game'.enemies) >= k ]_vars

(* the player died of five collisions without a kill, and an enemy is on   *)
(* the dead player                                                          *)
C10_Witness ==
    /\ Health = 0
    /\ game.score = 0
    /\ game.player.trail.disabled
    /\ \E i \in 1..Len(game.enemies) :
          distLE(game.enemies[i].pos, game.player.pos, PLAYER_RADIUS + ENEMY_RADIUS)

(* C11 as claimed: while the player's health is 0 the player's trail and   *)
(* the trail of every enemy in the collection are disabled.                 *)
C11_TrailsDisabled ==
    Health = 0 =>
        /\ game.player.trail.disabled
        /\ \A i \in 1..Len(game.enemies) : game.enemies[i].trail.disabled

(* the enemies of m that touch the player and a bullet *)
TouchingAndHit(m) ==
    {i \in 1..Len(m.enemies) :
        /\ LET d == sub(m.enemies[i].pos, m.player.pos)
               r == PLAYER_RADIUS + ENEMY_RADIUS
           IN  d.x * d.x + d.y * d.y <= r * r
        /\ \E j \in 1..Len(m.bullets) : <<i, j>> \in HitPairs(m)}

(* C12: an update takes ENEMY_DAMAGE from the health at most once for each *)
(* enemy that touches the player and no bullet; when every enemy on a      *)
(* living player is hit by a bullet, the update only heals.                 *)
C12_HitOrDamage ==
    [][ \A dt \in FrameDts, rnd \in Randoms :
          (UpdateStep(dt, rnd) /\ ~game.paused) =>
              LET m == Scanned(dt)
                  k == Cardinality(Touching(m))
                  n == Cardinality(HitPairs(m))
              IN  /\ Health' >= Health - k * ENEMY_DAMAGE
                  /\ (Health > 0 /\ k = 0) => Health' = Healed(Health, n)
                  /\ \A i \in TouchingAndHit(m) :
                        CollisionScan(m, rnd.burst).enemies[i].ded ]_vars

(* the first enemy reached the player, who shot it there: one kill, no     *)
(* damage                                                                   *)
C12_Witness ==
    /\ now = 5 * FrameMs
    /\ game.score = ENEMY_KILL_SCORE
    /\ Health = PLAYER_MAX_HEALTH
    /\ Len(game.enemies) = 4

(* C13: no enemy of the collection is dead or at ENEMY_DESPAWN_DISTANCE or *)
(* farther from the player, and every bullet and every particle has a      *)
(* lifetime above 0.                                                        *)
C13_NoDeadEntity ==
    /\ \A i \in 1..Len(game.enemies) :
          /\ ~game.enemies[i].ded
          /\ LET d == sub(game.enemies[i].pos, game.player.pos)
             IN  d.x * d.x + d.y * d.y
                     < ENEMY_DESPAWN_DISTANCE * ENEMY_DESPAWN_DISTANCE
    /\ \A j \in 1..Len(game.bullets) : game.bullets[j].lifetime > 0
    /\ \A j \in 1..Len(game.particles) : game.particles[j].lifetime > 0

(* three long frames spawned three enemies; none was shot, none reached    *)
(* the player, and one has been left behind and removed                     *)
C13_Witness ==
    /\ now = 3 * FrameMs
    /\ game.score = 0
    /\ Health = PLAYER_MAX_HEALTH
    /\ Len(game.enemies) < 3

RECURSIVE Interval(_)
(* ENEMY_SPAWN_COOLDOWN / ENEMY_SPAWN_GROWTH^n, in microseconds *)
Interval(n) ==
    IF n = 0 THEN ENEMY_SPAWN_COOLDOWN ELSE Div(Interval(n - 1) * 100, 101)

(* C14: with the tutorial Finished a non-paused update takes its dt from   *)
(* the cooldown; exactly when the result is <= 0 it appends one enemy at   *)
(* ENEMY_SPAWN_DISTANCE, sets the cooldown to the interval as it was and   *)
(* divides the interval by ENEMY_SPAWN_GROWTH, to a smaller positive one;  *)
(* otherwise it spawns nothing and keeps the interval.  While nothing has  *)
(* removed an enemy, n enemies mean the interval I / g^n and a cooldown    *)
(* reset to the interval I / g^(n-1) of the n-th spawn.                    *)
C14_SpawnScheduler ==
    /\ [](/\ game.enemySpawnRate > 0
          /\ game.enemySpawnRate <= ENEMY_SPAWN_COOLDOWN
          /\ (game.score = 0 /\ Health = PLAYER_MAX_HEALTH) =>
                LET n == Len(game.enemies)
                IN  /\ game.enemySpawnRate = Interval(n)
                    /\ n > 0 => game.enemySpawnCooldown = Interval(n - 1))
    /\ [][ \A dt \in FrameDts, rnd \in Randoms :
            (UpdateStep(dt, rnd) /\ ~game.paused /\ Stage = Finished) =>
                LET sdt == SimDt(game.player, dt)
                    cd == game.enemySpawnCooldown - 1000 * sdt
                    kept == Prune(CollisionScan(Scanned(dt), rnd.burst), sdt).enemies
                    n == Len(game'.enemies)
                IN  IF cd <= 0
                    THEN /\ n = Len(kept) + 1
                         /\ SubSeq(game'.enemies, 1, n - 1) = kept
                         /\ game'.enemies[n].radius = 0
                         /\ ~game'.enemies[n].ded
                         /\ LET d == sub(game'.enemies[n].pos, game'.player.pos)
                            IN  d.x * d.x + d.y * d.y
                                   = ENEMY_SPAWN_DISTANCE * ENEMY_SPAWN_DISTANCE
                         /\ game'.enemySpawnCooldown = game.enemySpawnRate
                         /\ game'.enemySpawnRate * 101 <= game.enemySpawnRate * 100
                         /\ (game'.enemySpawnRate + 1) * 101 > game.enemySpawnRate * 100
                         /\ game'.enemySpawnRate < game.enemySpawnRate
                    ELSE /\ game'.enemies = kept
                         /\ game'.enemySpawnCooldown = cd
                         /\ game'.enemySpawnRate = game.enemySpawnRate ]_vars

(* three spawns, nothing removed: the cooldown holds the third interval,   *)
(* the interval has shrunk three times                                      *)
C14_Witness ==
    /\ Len(game.enemies) = 3
    /\ game.score = 0
    /\ Health = PLAYER_MAX_HEALTH
    /\ game.enemySpawnCooldown > game.enemySpawnRate
    /\ game.enemySpawnRate < ENEMY_SPAWN_COOLDOWN

----------------------------------------------------------------------------
(* Color (lines 11-48).  A string that is parsed is a sequence of           *)
(* one-character strings; r, g and b are in 1/255, a in 1/ALPHA_ONE.       *)

NaN == -255         \* parseInt found no digit; NaN / 255.0 is NaN

Decimal == <<"0", "1", "2", "3", "4", "5", "6", "7", "8", "9">>
Lower ==
    <<"a", "b", "c", "d", "e", "f", "g", "h", "i", "j", "k", "l", "m",
      "n", "o", "p", "q", "r", "s", "t", "u", "v", "w", "x", "y", "z">>
Upper ==
    <<"A", "B", "C", "D", "E", "F", "G", "H", "I", "J", "K", "L", "M",
      "N", "O", "P", "Q", "R", "S", "T", "U", "V", "W", "X", "Y", "Z">>

Chars(seq) == {seq[i] : i \in 1..Len(seq)}
IndexOf(seq, c) == CHOOSE i \in 1..Len(seq) : seq[i] = c

(* the class [0-9a-z] of the pattern of line 38, under its flag i *)
WordChar(c) == c \in Chars(Decimal) \cup Chars(Lower) \cup Chars(Upper)

(* the value of one digit of radix 16, NaN for any other character *)
Digit16(c) ==
    IF c \in Chars(Decimal) THEN IndexOf(Decimal, c) - 1
    ELSE IF c \in Chars(SubSeq(Lower, 1, 6)) THEN IndexOf(Lower, c) + 9
    ELSE IF c \in Chars(SubSeq(Upper, 1, 6)) THEN IndexOf(Upper, c) + 9
    ELSE NaN

(* parseInt(two, 16) of two characters of WordChar: the longest prefix of  *)
(* digits of radix 16 is the number, and no such prefix is NaN             *)
parseInt16(two) ==
    LET hi == Digit16(two[1])
        lo == Digit16(two[2])
    IN  IF hi = NaN THEN NaN
        ELSE IF lo = NaN THEN hi
        ELSE 16 * hi + lo

Color(r, g, b, a) == [r |-> r, g |-> g, b |-> b, a |-> a]

(* hexcolor.match(...), line 37-38: the first place where "#" is followed  *)
(* by six characters of WordChar; 0 when there is none                     *)
HexMatch(hexcolor) ==
    LET starts == {i \in 1..(Len(hexcolor) - 6) :
                      /\ hexcolor[i] = "#"
                      /\ \A j \in 1..6 : WordChar(hexcolor[i + j])}
    IN  IF starts = {} THEN 0
        ELSE CHOOSE i \in starts : \A k \in starts : i <= k

(* Color.hex, lines 36-48: threw tells that line 46 was reached *)
ColorHex(hexcolor) ==
    LET i == HexMatch(hexcolor)
    IN  IF i > 0
        THEN [threw |-> FALSE,
              color |-> Color(parseInt16(SubSeq(hexcolor, i + 1, i + 2)),
                              parseInt16(SubSeq(hexcolor, i + 3, i + 4)),
                              parseInt16(SubSeq(hexcolor, i + 5, i + 6)),
                              ALPHA_ONE)]
        ELSE [threw |-> TRUE, color |-> Null]

PLAYER_COLOR == ColorHex(<<"#", "f", "4", "3", "8", "4", "1">>).color
ENEMY_COLOR == ColorHex(<<"#", "9", "e", "9", "5", "c", "7">>).color
MESSAGE_COLOR == ColorHex(<<"#", "f", "f", "f", "f", "f", "f">>).color

(* the strings given to Color.hex: a hex digit, an upper-case one, a       *)
(* letter that is no hex digit, and the "#"                                  *)
HexAlphabet == {"#", "1", "F", "g"}
HexInputs == UNION {[1..n -> HexAlphabet] : n \in 0..MaxHexLen}

(* a call of Color.hex that has not returned *)
HexInit ==
    /\ slot = Null
    /\ game = GameNew(slot)
    /\ renderer = RendererNew
    /\ now = 0
    /\ inputs = 0
    /\ fresh = TRUE
    /\ sinceShot = NoShot
    /\ shotAt = NoShot
    /\ unit \in {[hexcolor |-> h, done |-> FALSE, result |-> Null] : h \in HexInputs}

(* Color.hex(hexcolor) runs *)
Hex ==
    /\ ~unit.done
    /\ unit' = [unit EXCEPT !.done = TRUE, !.result = ColorHex(unit.hexcolor)]
    /\ UNCHANGED <<game, renderer, slot, now, inputs, fresh, sinceShot, shotAt>>

HexNext == Hex

(* Color.hex on its own, for every string of HexInputs *)
HexSpec == HexInit /\ [][HexNext]_vars

(* "#" and six digits of radix 16, nothing else *)
IsHexColour(hexcolor) ==
    /\ Len(hexcolor) = 7
    /\ hexcolor[1] = "#"
    /\ \A j \in 2..7 : Digit16(hexcolor[j]) # NaN

(* C17: Color.hex returns a colour, with r, g and b in [0, 1] and a = 1,   *)
(* exactly for the strings that are a "#" and six hex digits, and throws   *)
(* for every other string.                                                  *)
C17_HexOrError ==
    unit.done =>
        IF IsHexColour(unit.hexcolor)
        THEN /\ ~unit.result.threw
             /\ \A ch \in {unit.result.color.r, unit.result.color.g,
                           unit.result.color.b} : ch \in 0..255
             /\ unit.result.color.a = ALPHA_ONE
        ELSE unit.result.threw

----------------------------------------------------------------------------
(* RendererWebGL's batch of circles (lines 132, 175-213, 245-280).  The    *)
(* three Float32Arrays are kept per instance: entry i of the centre array  *)
(* is the pair at i * VEC2_COUNT, entry i of the colour array the four     *)
(* floats at i * RGBA_COUNT; the model's entries are numbered from 1.      *)

CIRCLE_BATCH_CAPACITY == 1024

(* the batch after the constructor; calls, clears and drawn are history:   *)
(* the fillCircle calls since the last clear(), the clear() calls, and the *)
(* instance count of the draw call of the last present() of this batch     *)
WebGLNew ==
    [circlesCount |-> 0,
     circleCenterBufferData |-> [i \in 1..CIRCLE_BATCH_CAPACITY |-> Zero],
     circleRadiusBufferData |-> [i \in 1..CIRCLE_BATCH_CAPACITY |-> 0],
     circleColorBufferData |-> [i \in 1..CIRCLE_BATCH_CAPACITY |-> Color(0, 0, 0, 0)],
     calls |-> 0, clears |-> 0, drawn |-> Null]

(* a mutation of WebGLFillCircle: no test of the capacity; a typed array   *)
(* ignores a write past its end                                             *)
WebGLFillCircleUnguarded(r, center, radius, color) ==
    LET i == r.circlesCount + 1
    IN  IF i <= CIRCLE_BATCH_CAPACITY
        THEN [r EXCEPT !.circleCenterBufferData[i] = center,
                       !.circleRadiusBufferData[i] = radius,
                       !.circleColorBufferData[i] = color,
                       !.circlesCount = r.circlesCount + 1]
        ELSE [r EXCEPT !.circlesCount = r.circlesCount + 1]

(* RendererWebGL.fillCircle, lines 266-280 *)
WebGLFillCircle(r, center, radius, color) ==
    IF r.circlesCount < CIRCLE_BATCH_CAPACITY
    THEN LET i == r.circlesCount + 1
         IN  [r EXCEPT !.circleCenterBufferData[i] = center,
                       !.circleRadiusBufferData[i] = radius,
                       !.circleColorBufferData[i] = color,
                       !.circlesCount = r.circlesCount + 1]
    ELSE r

(* RendererWebGL.clear, lines 256-260 *)
WebGLClear(r) == [r EXCEPT !.circlesCount = 0]

(* RendererWebGL.present, lines 245-254: the three arrays are uploaded     *)
(* whole and circlesCount instances are drawn                               *)
WebGLPresent(r) == [r EXCEPT !.drawn = r.circlesCount]

(* the k-th circle of the b-th batch *)
BatchCircle(b, k) ==
    [center |-> V2(k, b), radius |-> b,
     color |-> IF b % 2 = 1 THEN PLAYER_COLOR ELSE ENEMY_COLOR]

(* the numbers of circles of a frame: none, few, and around the capacity *)
BatchSizes ==
    (0..1) \cup ((CIRCLE_BATCH_CAPACITY - 1)..(CIRCLE_BATCH_CAPACITY + MaxOverflow))

BatchInit ==
    /\ slot = Null
    /\ game = GameNew(slot)
    /\ renderer = RendererNew
    /\ now = 0
    /\ inputs = 0
    /\ fresh = TRUE
    /\ sinceShot = NoShot
    /\ shotAt = NoShot
    /\ unit = WebGLNew

BatchRest == UNCHANGED <<game, renderer, slot, now, inputs, fresh, sinceShot, shotAt>>

(* Game.render, line 915: a frame begins with clear() *)
BatchClear ==
    /\ unit.clears < MaxBatches
    /\ unit.clears = 0 \/ unit.drawn # Null
    /\ unit' = [WebGLClear(unit) EXCEPT
                   !.calls = 0, !.clears = unit.clears + 1, !.drawn = Null]
    /\ BatchRest

(* one entity's render: fillCircle *)
BatchFillCircle ==
    /\ unit.clears > 0
    /\ unit.drawn = Null
    /\ unit.calls < CIRCLE_BATCH_CAPACITY + MaxOverflow
    /\ LET c == BatchCircle(unit.clears, unit.calls + 1)
       IN  unit' = [WebGLFillCircle(unit, c.center, c.radius, c.color) EXCEPT
                       !.calls = unit.calls + 1]
    /\ BatchRest

(* Game.render, line 933: a frame ends with present() *)
BatchPresent ==
    /\ unit.clears > 0
    /\ unit.drawn = Null
    /\ unit.calls \in BatchSizes
    /\ unit' = WebGLPresent(unit)
    /\ BatchRest

BatchNext ==
    \/ BatchClear
    \/ BatchFillCircle
    \/ BatchPresent

(* a RendererWebGL on its own, under the frames of Game.render *)
BatchSpec == BatchInit /\ [][BatchNext]_vars

(* C15: after k fillCircle calls since the last clear() the counter is     *)
(* min(k, CIRCLE_BATCH_CAPACITY); a call within the capacity writes its    *)
(* circle at the counter's place and a call beyond it changes neither      *)
(* the counter nor any of the three arrays; clear() sets the counter to 0; *)
(* present() draws the counter's number of instances.                       *)
C15_BatchCounter ==
    /\ [](unit.circlesCount = Min(unit.calls, CIRCLE_BATCH_CAPACITY))
    /\ [][ /\ unit'.calls = unit.calls + 1 =>
                IF unit.calls < CIRCLE_BATCH_CAPACITY
                THEN LET c == BatchCircle(unit.clears, unit.calls + 1)
                         i == unit.calls + 1
                     IN  /\ unit'.circleCenterBufferData[i] = c.center
                         /\ unit'.circleRadiusBufferData[i] = c.radius
                         /\ unit'.circleColorBufferData[i] = c.color
                ELSE /\ unit'.circlesCount = unit.circlesCount
                     /\ unit'.circleCenterBufferData = unit.circleCenterBufferData
                     /\ unit'.circleRadiusBufferData = unit.circleRadiusBufferData
                     /\ unit'.circleColorBufferData = unit.circleColorBufferData
           /\ unit'.clears = unit.clears + 1 => unit'.circlesCount = 0
           /\ (unit.drawn = Null /\ unit'.drawn # Null) =>
                unit'.drawn = Min(unit.calls, CIRCLE_BATCH_CAPACITY) ]_vars

(* the second batch has been given more circles than the capacity and has  *)
(* been presented                                                           *)
C15_Witness ==
    /\ unit.clears = 2
    /\ unit.calls > CIRCLE_BATCH_CAPACITY
    /\ unit.drawn = CIRCLE_BATCH_CAPACITY

----------------------------------------------------------------------------
(* Game.render (lines 914-934) under the two renderers.  A frame is the    *)
(* circles drawn, each with its centre relative to the middle of the       *)
(* screen, and the message shown.                                           *)

withAlpha(c, a) == [c EXCEPT !.a = a]

(* Color.grayScale(t), lines 27-34, t in 1/GRAY_ONE *)
grayScale(c, t) ==
    LET x == Div(c.r + c.g + c.b, 3)
    IN  Color(c.r + Div((x - c.r) * t, GRAY_ONE),
              c.g + Div((x - c.g) * t, GRAY_ONE),
              c.b + Div((x - c.b) * t, GRAY_ONE),
              c.a)

Circle(center, radius, color) ==
    [center |-> center, radius |-> radius, color |-> color]

(* Trail.render, lines 697-705 *)
TrailRender(t, radius, color) ==
    [i \in 1..Len(t.trail) |->
        Circle(t.trail[i].pos, Div(radius * t.trail[i].a, TRAIL_ONE),
               withAlpha(color, 2 * t.trail[i].a))]

(* Player.render, lines 743-749 *)
PlayerRender(p) ==
    TrailRender(p.trail, PLAYER_RADIUS, PLAYER_COLOR)
        \o (IF p.health > 0
            THEN <<Circle(p.pos, PLAYER_RADIUS, PLAYER_COLOR)>> ELSE <<>>)

(* Enemy.render, lines 571-574 *)
EnemyRender(e) ==
    TrailRender(e.trail, ENEMY_RADIUS, ENEMY_COLOR)
        \o <<Circle(e.pos, e.radius, ENEMY_COLOR)>>

RECURSIVE EnemiesRender(_)
EnemiesRender(enemies) ==
    IF enemies = <<>> THEN <<>>
    ELSE EnemyRender(Head(enemies)) \o EnemiesRender(Tail(enemies))

(* the fillCircle calls of Game.render, lines 918-922, in their order *)
FillCircles(g) ==
    PlayerRender(g.player)
        \o [j \in 1..Len(g.bullets) |->
               Circle(g.bullets[j].pos, BULLET_RADIUS, PLAYER_COLOR)]
        \o [j \in 1..Len(g.particles) |->
               Circle(g.particles[j].pos, g.particles[j].radius,
                      withAlpha(IF g.particles[j].color = "player"
                                THEN PLAYER_COLOR ELSE ENEMY_COLOR,
                                10 * g.particles[j].lifetime))]
        \o EnemiesRender(g.enemies)

NoMessage == [kind |-> "none", text |-> Undefined, alpha |-> 0]

(* the fillMessage call of Game.render, lines 924-931; a message of no     *)
(* text or of alpha 0 shows nothing                                         *)
FillMessage(g) ==
    IF g.paused THEN [kind |-> "paused", text |-> Undefined, alpha |-> ALPHA_ONE]
    ELSE IF g.player.health <= 0
    THEN [kind |-> "score", text |-> g.score, alpha |-> ALPHA_ONE]
    ELSE IF g.tutorial.popup.alpha > 0 /\ g.tutorial.popup.text \in 0..1
    THEN [kind |-> "tutorial", text |-> g.tutorial.popup.text,
          alpha |-> g.tutorial.popup.alpha]
    ELSE NoMessage

(* Renderer2D.fillCircle and fillMessage, lines 371-400: worldToCamera     *)
(* takes the camera's position off the centre, grayScale fades the colour  *)
Frame2D(g, r) ==
    [circles |-> [i \in 1..Len(FillCircles(g)) |->
                     LET c == FillCircles(g)[i]
                     IN  Circle(sub(c.center, r.cameraPos), c.radius,
                                grayScale(c.color, r.grayness))],
     message |-> FillMessage(g)]

(* RendererWebGL.fillCircle and fillMessage, lines 266-284, and the vertex *)
(* shader, lines 106-115: the centre and the colour go to the arrays as    *)
(* they are, the shader projects the centre without a camera, the first    *)
(* CIRCLE_BATCH_CAPACITY circles are drawn and fillMessage is empty        *)
FrameWebGL(g, r) ==
    [circles |-> SubSeq(FillCircles(g), 1,
                        Min(Len(FillCircles(g)), CIRCLE_BATCH_CAPACITY)),
     message |-> NoMessage]

(* C16: whatever Game has asked of the renderer, the frame drawn by        *)
(* Renderer2D and the frame drawn by RendererWebGL are the same: the same  *)
(* circles with the same centre relative to the camera, radius and colour, *)
(* and the same message.                                                    *)
C16_SameFrame == Frame2D(game, renderer) = FrameWebGL(game, renderer)

(* C18: in every state that is rendered each enemy's radius is between 0,  *)
(* the radius it is built with, and ENEMY_RADIUS, at which its growth of   *)
(* ENEMY_SPAWN_ANIMATION_SPEED * dt per update ends.                        *)
C18_RadiusBounded ==
    \A i \in 1..Len(game.enemies) :
        /\ game.enemies[i].radius >= 0
        /\ game.enemies[i].radius <= ENEMY_RADIUS

----------------------------------------------------------------------------
(* A Trail on its own (lines 686-728), under any order of its calls         *)

NoSample == -1      \* no sample has been appended yet

(* the dt of an update, in ms: nothing, less than TRAIL_COOLDOWN, a frame  *)
(* longer than it, and one that fades a sample of the player's trail out   *)
TrailDts == {0, 5, 20, 400}
TrailRates == {PLAYER_TRAIL_RATE, ENEMY_TRAIL_RATE}
TrailPoints == {Zero}

(* a new Trail of one of the two rates; calls, since and last are history: *)
(* the number of calls, the dt of the updates since the last sample was    *)
(* appended, and the last call with its dt and the number of samples it    *)
(* has evicted                                                              *)
TrailInit ==
    /\ slot = Null
    /\ game = GameNew(slot)
    /\ renderer = RendererNew
    /\ now = 0
    /\ inputs = 0
    /\ fresh = TRUE
    /\ sinceShot = NoShot
    /\ shotAt = NoShot
    /\ unit \in {[t |-> TrailNew, rate |-> r, calls |-> 0, since |-> NoSample,
                  last |-> [call |-> "new", dt |-> 0, evicted |-> 0]] : r \in TrailRates}

TrailRest == UNCHANGED <<game, renderer, slot, now, inputs, fresh, sinceShot, shotAt>>

(* trail.push(pos) *)
TrailPushCall ==
    /\ unit.calls < MaxTrailCalls
    /\ \E pos \in TrailPoints :
          LET t == TrailPush(unit.t, pos)
          IN  unit' = [unit EXCEPT
                          !.t = t,
                          !.calls = @ + 1,
                          !.since = IF Len(t.trail) > Len(unit.t.trail) THEN 0 ELSE @,
                          !.last = [call |-> "push", dt |-> 0, evicted |-> 0]]
    /\ TrailRest

(* trail.update(dt) *)
TrailUpdateCall ==
    /\ unit.calls < MaxTrailCalls
    /\ \E dt \in TrailDts :
          LET t == TrailUpdate(unit.t, unit.rate, dt)
          IN  unit' = [unit EXCEPT
                          !.t = t,
                          !.calls = @ + 1,
                          !.since = IF @ = NoSample THEN @ ELSE @ + dt,
                          !.last = [call |-> "update", dt |-> dt,
                                    evicted |-> Len(unit.t.trail) - Len(t.trail)]]
    /\ TrailRest

(* trail.disabled = true, lines 869-874 *)
TrailDisable ==
    /\ unit.calls < MaxTrailCalls
    /\ ~unit.t.disabled
    /\ unit' = [unit EXCEPT !.t.disabled = TRUE, !.calls = @ + 1,
                            !.last = [call |-> "disable", dt |-> 0, evicted |-> 0]]
    /\ TrailRest

TrailNext ==
    \/ TrailPushCall
    \/ TrailUpdateCall
    \/ TrailDisable

TrailSpec == TrailInit /\ [][TrailNext]_vars

(* the samples of dots that an update of rate * dt leaves with a > 0 *)
Unfaded(dots, fade) ==
    SelectSeq([i \in 1..Len(dots) |-> [dots[i] EXCEPT !.a = @ - fade]],
              LAMBDA d : d.a > 0)

(* C19: under any order of push and update calls with dt >= 0 every sample *)
(* of the trail has an intensity in (0, 1] and the intensities do not      *)
(* decrease from the front to the back; so an update, which evicts from    *)
(* the front only, keeps exactly the samples that it leaves above 0, and   *)
(* an update with rate * dt >= 1 empties a trail of one sample.            *)
C19_TrailOrdered ==
    /\ [](/\ \A i \in 1..Len(unit.t.trail) :
                unit.t.trail[i].a > 0 /\ unit.t.trail[i].a <= TRAIL_ONE
          /\ \A i \in 1..Len(unit.t.trail), j \in 1..Len(unit.t.trail) :
                i < j => unit.t.trail[i].a <= unit.t.trail[j].a)
    /\ [][ unit'.last.call = "update" =>
             LET fade == unit.rate * unit'.last.dt
             IN  /\ unit'.t.trail = Unfaded(unit.t.trail, fade)
                 /\ (Len(unit.t.trail) = 1 /\ fade >= TRAIL_ONE) =>
                        unit'.t.trail = <<>> ]_vars

(* an update has evicted the older sample and kept the newer one, faded *)
C19_Witness ==
    /\ unit.last.call = "update"
    /\ unit.last.evicted = 1
    /\ Len(unit.t.trail) = 1
    /\ unit.t.trail[1].a < TRAIL_ONE

(* C20: push appends one sample of intensity 1 and starts the cooldown     *)
(* when the trail is not disabled and the dt of the updates since the last *)
(* appended sample is at least TRAIL_COOLDOWN (or there is no sample yet); *)
(* any other push leaves the trail as it is.  No two samples are appended  *)
(* without an update between them.                                          *)
C20_TrailRateLimited ==
    [][ unit'.last.call = "push" =>
          IF ~unit.t.disabled
             /\ (unit.since = NoSample \/ unit.since >= TRAIL_COOLDOWN)
          THEN /\ Len(unit'.t.trail) = Len(unit.t.trail) + 1
               /\ SubSeq(unit'.t.trail, 1, Len(unit.t.trail)) = unit.t.trail
               /\ unit'.t.trail[Len(unit'.t.trail)].a = TRAIL_ONE
               /\ unit'.t.trail[Len(unit'.t.trail)].pos \in TrailPoints
               /\ unit.last.call # "push" \/ unit.since = NoSample
          ELSE unit'.t = unit.t ]_vars

(* a push on an enabled trail, 5 ms after a sample, has appended nothing *)
C20_Witness ==
    /\ unit.last.call = "push"
    /\ ~unit.t.disabled
    /\ unit.since = 5
    /\ Len(unit.t.trail) = 1

----------------------------------------------------------------------------
(* C21: the popup's alpha is between 0 and 1 and its text is the message   *)
(* of one of the three stages; the text changes only at the bottom of a    *)
(* fade-out (alpha 0, fading in again); a non-paused update moves alpha by *)
(* the fade's speed * dt, downwards after a transition until it is 0,      *)
(* where the text becomes the message of the stage, and upwards until 1.   *)
C21_PopupFades ==
    /\ [](/\ game.tutorial.popup.alpha \in 0..ALPHA_ONE
          /\ game.tutorial.popup.text \in {LearningMovement, LearningShooting, Finished})
    /\ [][ LET p == game.tutorial.popup
               q == game'.tutorial.popup
           IN  /\ q.text # p.text =>
                     /\ q.alpha = 0
                     /\ q.dalpha > 0
                     /\ q.text = game'.tutorial.state.n
               /\ \A dt \in FrameDts, rnd \in Randoms :
                     (UpdateStep(dt, rnd) /\ ~game.paused) =>
                        LET d == IF game'.tutorial.state # game.tutorial.state
                                 THEN -TUTORIAL_POPUP_SPEED ELSE p.dalpha
                            a == p.alpha + d * SimDt(game.player, dt)
                        IN  /\ q.alpha = Max(0, Min(ALPHA_ONE, a))
                            /\ (d < 0 /\ a <= 0) => q.text = game'.tutorial.state.n
                            /\ (d >= 0 \/ a > 0) => q.text = p.text ]_vars

(* C22 as claimed: once the popup of a Finished tutorial is at alpha 0     *)
(* with the empty message, it stays at alpha 0.                             *)
C22_StaysAtZero ==
    [][ (/\ Stage = Finished
         /\ game.tutorial.popup.text = Finished
         /\ game.tutorial.popup.alpha = 0
         /\ \E dt \in FrameDts, rnd \in Randoms : UpdateStep(dt, rnd))
        => game'.tutorial.popup.alpha = 0 ]_vars

(* C22: once the tutorial is Finished the popup either holds the empty     *)
(* message, and keeps it from then on, or is fading out towards it; each   *)
(* non-paused update with dt > 0 lowers the alpha of a fade-out by         *)
(* speed * dt until it is 0, where the text becomes the empty message and  *)
(* the popup fades in again, and then raises alpha by speed * dt up to 1,  *)
(* where it stays: the popup is invisible by its empty text, not by its    *)
(* alpha.                                                                   *)
C22_FadesToEmpty ==
    /\ []((Stage = Finished /\ game.tutorial.popup.text # Finished) =>
             game.tutorial.popup.dalpha < 0 /\ game.tutorial.popup.alpha > 0)
    /\ [][ LET p == game.tutorial.popup
               q == game'.tutorial.popup
           IN  /\ p.text = Finished => q.text = Finished
               /\ \A dt \in FrameDts, rnd \in Randoms :
                     (UpdateStep(dt, rnd) /\ ~game.paused /\ Stage = Finished
                        /\ SimDt(game.player, dt) > 0) =>
                        LET step == TUTORIAL_POPUP_SPEED * SimDt(game.player, dt)
                        IN  IF p.dalpha < 0
                            THEN /\ q.alpha = Max(0, p.alpha - step)
                                 /\ q.alpha < p.alpha
                                 /\ q.alpha = 0 => q.text = Finished /\ q.dalpha > 0
                            ELSE /\ q.alpha = Min(ALPHA_ONE, p.alpha + step)
                                 /\ p.alpha < ALPHA_ONE =>
                                       q.alpha > p.alpha /\ p.dalpha > 0 ]_vars

(* a first visit has gone through both lessons and the popup has faded in  *)
(* again with the empty message                                             *)
C22_Witness ==
    /\ fresh
    /\ Stage = Finished
    /\ game.tutorial.popup.text = Finished
    /\ game.tutorial.popup.alpha = ALPHA_ONE
    /\ ~game.paused

----------------------------------------------------------------------------
(* A renderer's camera on its own: setTarget and update are the same code  *)
(* in RendererWebGL (lines 237-243) and Renderer2D (lines 328-369), and    *)
(* Game.restart writes the two fields (lines 803-804)                      *)

CameraTargets == {Zero, V2(1500, 0), V2(-600, 900)}
CameraDts == {0, 30, 1500}

(* unit is history: the number of calls and the last call *)
CameraInit ==
    /\ slot = Null
    /\ game = GameNew(slot)
    /\ renderer = RendererNew
    /\ now = 0
    /\ inputs = 0
    /\ fresh = TRUE
    /\ sinceShot = NoShot
    /\ shotAt = NoShot
    /\ unit = [calls |-> 0, last |-> [call |-> "new", target |-> Zero, dt |-> 0]]

CameraRest == UNCHANGED <<game, slot, now, inputs, fresh, sinceShot, shotAt>>

CameraSetTarget ==
    /\ unit.calls < MaxCameraCalls
    /\ \E target \in CameraTargets :
          /\ renderer' = setTarget(renderer, target)
          /\ unit' = [calls |-> unit.calls + 1,
                      last |-> [call |-> "setTarget", target |-> target, dt |-> 0]]
    /\ CameraRest

CameraUpdate ==
    /\ unit.calls < MaxCameraCalls
    /\ \E dt \in CameraDts :
          /\ renderer' = RendererUpdate(renderer, dt)
          /\ unit' = [calls |-> unit.calls + 1,
                      last |-> [call |-> "update", target |-> Zero, dt |-> dt]]
    /\ CameraRest

CameraRestart ==
    /\ unit.calls < MaxCameraCalls
    /\ renderer' = RendererRestart(renderer)
    /\ unit' = [calls |-> unit.calls + 1,
                last |-> [call |-> "restart", target |-> Zero, dt |-> 0]]
    /\ CameraRest

CameraNext ==
    \/ CameraSetTarget
    \/ CameraUpdate
    \/ CameraRestart

CameraSpec == CameraInit /\ [][CameraNext]_vars

(* C23: setTarget(p) sets cameraVel to p - cameraPos and leaves cameraPos  *)
(* (and the grayness) as it is; update(dt) adds cameraVel * dt to          *)
(* cameraPos and keeps cameraVel, which is derived by setTarget only;      *)
(* Game.restart sets both to zero.                                          *)
C23_CameraChases ==
    [][ /\ unit'.last.call = "setTarget" =>
              /\ renderer'.cameraPos = renderer.cameraPos
              /\ renderer'.cameraVel = sub(unit'.last.target, renderer.cameraPos)
              /\ renderer'.grayness = renderer.grayness
        /\ unit'.last.call = "update" =>
              /\ renderer'.cameraVel = renderer.cameraVel
              /\ renderer'.cameraPos.x = renderer.cameraPos.x
                    + Div(renderer.cameraVel.x * unit'.last.dt, 1000)
              /\ renderer'.cameraPos.y = renderer.cameraPos.y
                    + Div(renderer.cameraVel.y * unit'.last.dt, 1000)
        /\ unit'.last.call = "restart" =>
              renderer'.cameraPos = Zero /\ renderer'.cameraVel = Zero ]_vars

(* a moved camera has been given a target that it has not reached *)
C23_Witness ==
    /\ unit.last.call = "setTarget"
    /\ renderer.cameraPos # Zero
    /\ renderer.cameraVel # Zero
    /\ renderer.cameraVel = sub(unit.last.target, renderer.cameraPos)

----------------------------------------------------------------------------
(* C24: while the game is not paused and the player is shooting, a         *)
(* pointer-move to any point is handled to its end and leaves the player's *)
(* target at the world coordinate of that point.                            *)
C24_MoveAims ==
    (~game.paused /\ game.player.shooting) =>
        \A point \in MousePoints :
            ENABLED (/\ MouseMove(point)
                     /\ game'.player.target = screenToWorld(renderer, point))

----------------------------------------------------------------------------
(* the two slots, with the points where their touches started *)
TouchSlots(g) ==
    <<g.movingTouchId, g.movingTouchStart, g.shootingTouchId, g.shootingTouchStart>>

(* the slot of the side of the point is taken *)
SideTaken(g, point) ==
    IF point.x < INNER_WIDTH \div 2
    THEN g.movingTouchId # Undefined
    ELSE g.shootingTouchId # Undefined

----------------------------------------------------------------------------
(* C26: from the player's death to the restart no step fires a bullet or   *)
(* changes the score or the hit counter.                                    *)
C26_DeadFrozen ==
    [][ (Health <= 0 /\ Health' <= 0) =>
            /\ ~Fired
            /\ Len(game'.bullets) <= Len(game.bullets)
            /\ game'.score = game.score
            /\ game'.player.accuracy = game.player.accuracy ]_vars

(* C27: the game is never paused while the player is dead; a step that      *)
(* pauses the game finds the player alive, and a step of a paused game that *)
(* leaves it paused leaves the player's health alone.                       *)
C27_NeverPausedDead ==
    /\ [](~(game.paused /\ Health <= 0))
    /\ [][ /\ (~game.paused /\ game'.paused) => (Health > 0 /\ Health' = Health)
           /\ (game.paused /\ game'.paused) => Health' = Health ]_vars

(* the player is dead in a battle that was paused and resumed before *)
C27_Witness ==
    /\ Health <= 0
    /\ ~game.paused
    /\ inputs >= 2

(* the enemies of m a bullet touches, and the bullets of m that touch an    *)
(* enemy                                                                    *)
BulletKills(m) ==
    {i \in 1..Len(m.enemies) : \E j \in 1..Len(m.bullets) : <<i, j>> \in HitPairs(m)}
BulletsSpent(m) ==
    {j \in 1..Len(m.bullets) : \E i \in 1..Len(m.enemies) : <<i, j>> \in HitPairs(m)}

(* C28: every update adds ENEMY_KILL_SCORE to the score once for each      *)
(* enemy that a bullet removes in it, so that the score is ENEMY_KILL_SCORE *)
(* times the number of enemies bullets have removed since the restart.      *)
C28_KillScoredOnce ==
    [][ \A rnd \in Randoms :
          Update(SkirmishMs, rnd, MaxSkirmishFrames) =>
              LET m == Scanned(SkirmishMs)
                  sc == CollisionScan(m, rnd.burst)
                  killed == {i \in BulletKills(m) : sc.enemies[i].ded}
              IN  game'.score = game.score + ENEMY_KILL_SCORE * Cardinality(killed) ]_vars

(* C29: no update removes more enemies by bullet hits than it consumes     *)
(* bullets: a bullet whose lifetime a hit has set to 0 kills no second      *)
(* enemy in the same collision pass.                                        *)
C29_OneHitPerBullet ==
    [][ \A rnd \in Randoms :
          Update(SkirmishMs, rnd, MaxSkirmishFrames) =>
              LET m == Scanned(SkirmishMs)
                  sc == CollisionScan(m, rnd.burst)
                  killed == {i \in BulletKills(m) : sc.enemies[i].ded}
                  spent == {j \in BulletsSpent(m) : sc.bullets[j].lifetime = 0}
              IN  Cardinality(killed) <= Cardinality(spent) ]_vars

(* the accuracy of the death screen, in percent, line 927 *)
ShownAccuracy(p) ==
    LET shots == Max(p.shootCount, 1)
    IN  Div(100 * p.accuracy + shots - 1, shots)

(* C30: once a hit has been scored, the hit counter is between 0 and the   *)
(* shot counter, and the accuracy of the death screen is at most 100%.      *)
C30_HitsWithinShots ==
    /\ game.player.accuracy > 0 =>
          /\ 0 <= game.player.accuracy
          /\ game.player.accuracy <= game.player.shootCount
    /\ ShownAccuracy(game.player) <= 100

(* the step is a Space key-down or a touch-start *)
RestartInput ==
    \/ KeyDown("Space")
    \/ \E id \in TouchIds, point \in TouchStartPoints : TouchDown(id, point)

(* C31: an input event on a living player leaves the player, the score,    *)
(* the bullets, enemies and particles, the spawn timers and the camera as   *)
(* they are; a Space key-down or a touch-start on a dead player leaves the  *)
(* game as a new game has it: full health, score 0, no bullets, enemies or  *)
(* particles, no pressed keys or tracked touches, both spawn timers at      *)
(* ENEMY_SPAWN_COOLDOWN, not paused, the camera at rest at the origin, the  *)
(* player's trail empty and enabled, the tutorial at the persisted stage.   *)
C31_RestartOnDeath ==
    [][ /\ (Health > 0 /\ inputs' = inputs + 1) =>
              /\ game'.player.health = game.player.health
              /\ game'.player.pos = game.player.pos
              /\ game'.player.trail = game.player.trail
              /\ game'.score = game.score
              /\ game'.bullets = game.bullets
              /\ game'.enemies = game.enemies
              /\ game'.particles = game.particles
              /\ game'.enemySpawnRate = game.enemySpawnRate
              /\ game'.enemySpawnCooldown = game.enemySpawnCooldown
              /\ renderer' = renderer
        /\ (Health <= 0 /\ RestartInput) =>
              /\ game'.player.health = PLAYER_MAX_HEALTH
              /\ game'.player.pos = Zero
              /\ game'.player.trail = [trail |-> <<>>, cooldown |-> 0, disabled |-> FALSE]
              /\ game'.score = 0
              /\ game'.bullets = <<>>
              /\ game'.enemies = <<>>
              /\ game'.particles = <<>>
              /\ game'.pressedKeys = {}
              /\ game'.movingTouchId = Undefined
              /\ game'.shootingTouchId = Undefined
              /\ game'.enemySpawnRate = ENEMY_SPAWN_COOLDOWN
              /\ game'.enemySpawnCooldown = ENEMY_SPAWN_COOLDOWN
              /\ ~game'.paused
              /\ renderer'.cameraPos = Zero
              /\ renderer'.cameraVel = Zero
              /\ slot' = slot
              /\ game'.tutorial.state.n = slot
              /\ game' = GameNew(slot) ]_vars

(* the game just after the restart that follows the first death: a new    *)
(* game on a screen that is still gray                                      *)
C31_Witness ==
    /\ game = GameNew(slot)
    /\ inputs = 1
    /\ now > 0
    /\ renderer.grayness = GRAY_ONE

(* C32 as claimed: a bullet is fired only when more than                   *)
(* PLAYER_SHOOT_COOLDOWN has passed on the clock since the previous shot.   *)
C32_ShotsApart ==
    [][ \A dt \in FrameDts \cup {SkirmishMs}, rnd \in Randoms :
          (Update(dt, rnd, MaxFrames + MaxBattleFrames) /\ Fired /\ shotAt # NoShot) =>
              now' - shotAt > PLAYER_SHOOT_COOLDOWN ]_vars

(* C32: an update with any of the frame deltas fires at most one bullet    *)
(* and leaves at most one enemy and one bullet more than it found; it fires *)
(* only with the shooting flag set and more than PLAYER_SHOOT_COOLDOWN on   *)
(* the clock since the previous shot of the current player, whose time      *)
(* lastShoot holds: a shot sets it to the clock reading, no other update    *)
(* changes it, and it is 0 for a player that has not fired.                 *)
C32_OneBulletOneEnemy ==
    /\ [](game.player.lastShoot \in {0, shotAt})
    /\ [][ \A dt \in FrameDts \cup {SkirmishMs}, rnd \in Randoms :
             Update(dt, rnd, MaxFrames + MaxBattleFrames) =>
                 /\ game'.player.shootCount \in
                        {game.player.shootCount, game.player.shootCount + 1}
                 /\ Len(game'.bullets) <= Len(game.bullets) + 1
                 /\ Len(game'.enemies) <= Len(game.enemies) + 1
                 /\ Fired =>
                        /\ ~game.paused
                        /\ game.player.shooting
                        /\ now' - game.player.lastShoot > PLAYER_SHOOT_COOLDOWN
                        /\ game'.player.lastShoot = now'
                        /\ shotAt' = now'
                 /\ ~Fired =>
                        /\ game'.player.lastShoot = game.player.lastShoot
                        /\ shotAt' = shotAt ]_vars

(* a frame of 1.5 s, six cooldowns and more than the spawn interval, has   *)
(* added one bullet and one enemy, and the player has fired again           *)
C32_Witness ==
    /\ game.player.shooting
    /\ game.player.shootCount = 2
    /\ game.player.lastShoot = now
    /\ Len(game.enemies) >= 1
    /\ Len(game.bullets) >= 1

(* C33: a press of the mouse or a touch-start on a paused game clears the  *)
(* paused flag and does nothing else: the shooting flag, the target, the   *)
(* tracked touches and their directions, the tutorial and the persisted    *)
(* stage stay, and so do the player, the score and the lists of the game   *)
(* (no restart), the renderer and the clock.                                *)
C33_PausedTapOnlyUnpauses ==
    [][ \A id \in TouchIds, point \in TapPoints :
          (game.paused /\ (MouseDown(point) \/ TouchDown(id, point))) =>
              /\ ~game'.paused
              /\ game'.player.shooting = game.player.shooting
              /\ game'.player.target = game.player.target
              /\ game'.movingTouchId = game.movingTouchId
              /\ game'.movingTouchStart = game.movingTouchStart
              /\ game'.movingTouchDirection = game.movingTouchDirection
              /\ game'.shootingTouchId = game.shootingTouchId
              /\ game'.shootingTouchStart = game.shootingTouchStart
              /\ game'.shootingTouchDirection = game.shootingTouchDirection
              /\ game'.tutorial = game.tutorial
              /\ slot' = slot
              /\ game' = [game EXCEPT !.paused = FALSE]
              /\ renderer' = renderer
              /\ now' = now ]_vars

(* a game that had fired, tracked a finger and left the first lesson has   *)
(* been paused, drawn gray by a paused update, and resumed                  *)
C33_Witness ==
    /\ ~game.paused
    /\ renderer.grayness = GRAY_ONE
    /\ Health = PLAYER_MAX_HEALTH
    /\ inputs = MaxTapInputs
    /\ game.player.shooting
    /\ game.player.lastShoot > 0
    /\ game.movingTouchId # Undefined
    /\ Stage # LearningMovement
    /\ game # GameNew(slot)

====
